---------------------------- MODULE Spec2Model ----------------------------
(***************************************************************************)
(* Model of the password bot of src/main.py: the per-user settings table,  *)
(* its flat-file store, the /start and button handlers, and the password   *)
(* generator.                                                              *)
(*                                                                         *)
(* Python strings are modelled as sequences of one-character strings; a    *)
(* character outside ASCII is written by its code point ("U+041E").        *)
(***************************************************************************)
EXTENDS Integers, Sequences, FiniteSets, TLC

VARIABLES
    user_settings,  \* the in-memory table: str(user_id) -> config dict
    file,           \* user_settings.json on disk
    phase,          \* "running", or "crashed" when start-up raised
    last,           \* the update (or start-up) handled last
    before,         \* user_settings as that handling found it
    events,         \* what handling it did to the outside world, in order
    updates,        \* number of updates and restarts handled so far
    gen_settings,   \* the dict handed to generate_password by that handling
    gen_result,     \* what that call produced (return value or exception)
    calls           \* the button_callback coroutines in flight, when they overlap

(***************************************************************************)
(* Bounds of the model.                                                    *)
(***************************************************************************)
\* number of characters of each class that the random source may pick from
AlphaSize == 2
\* how far below 0, and how far above it, the "length" handed to
\* generate_password directly goes
MaxNegLen == 2
MaxGenLen == 4
\* number of Telegram users talking to the bot
NumUsers == 2
\* number of updates and restarts handled in one behaviour
MaxUpdates == 2
\* number of button_callback coroutines that overlap
NumCalls == 2

(***************************************************************************)
(* Program constants.                                                      *)
(***************************************************************************)
ascii_lowercase ==
    << "a", "b", "c", "d", "e", "f", "g", "h", "i", "j", "k", "l", "m",
       "n", "o", "p", "q", "r", "s", "t", "u", "v", "w", "x", "y", "z" >>

ascii_uppercase ==
    << "A", "B", "C", "D", "E", "F", "G", "H", "I", "J", "K", "L", "M",
       "N", "O", "P", "Q", "R", "S", "T", "U", "V", "W", "X", "Y", "Z" >>

digits ==
    << "0", "1", "2", "3", "4", "5", "6", "7", "8", "9" >>

symbols ==
    << "!", "@", "#", "$", "%", "^", "&", "*", "(", ")", "_", "+", "-",
       "=", "[", "]", "{", "}", "|", ";", ":", ",", ".", "<", ">" >>

LEN_INCR == "len_incr"

LEN_DECR == "len_decr"

LEN_INFO == "len_info"

TOGGLE_UPPER == "toggle_upper"

TOGGLE_LOWER == "toggle_lower"

TOGGLE_DIGITS == "toggle_digits"

TOGGLE_SYMBOLS == "toggle_symbols"

GENERATE == "generate"

\* the sentinel returned when no character class is selected
ERROR_TEXT ==
    << "U+041E", "U+0448", "U+0438", "U+0431", "U+043A", "U+0430", ":", " ",
       "U+0412", "U+044B", "U+0431", "U+0435", "U+0440", "U+0438", "U+0442",
       "U+0435", " ", "U+0445", "U+043E", "U+0442", "U+044F", " ", "U+0431",
       "U+044B", " ", "U+043E", "U+0434", "U+0438", "U+043D", " ", "U+0442",
       "U+0438", "U+043F", " ", "U+0441", "U+0438", "U+043C", "U+0432",
       "U+043E", "U+043B", "U+043E", "U+0432", "!" >>

(***************************************************************************)
(* Small helpers for Python's list operations.                             *)
(***************************************************************************)
Range(s) == { s[i] : i \in 1..Len(s) }

Min(a, b) == IF a < b THEN a ELSE b

Max(a, b) == IF a > b THEN a ELSE b

\* the characters of a class that the bounded random source can reach
Reachable(alphabet) == SubSeq(alphabet, 1, Min(AlphaSize, Len(alphabet)))

\* list[:k] of Python, k of either sign
slice_to(list, k) ==
    IF k >= 0
    THEN SubSeq(list, 1, Min(k, Len(list)))
    ELSE SubSeq(list, 1, Max(0, Len(list) + k))

\* the list rearranged by the permutation p of its indices
permuted(list, p) == [i \in 1..Len(list) |-> list[p[i]]]

(***************************************************************************)
(* generate_password                                                       *)
(***************************************************************************)
\* the classes whose flag is set, in the order the function tests them
enabled_classes(settings) ==
    (IF settings.use_lower THEN << "lower" >> ELSE << >>) \o
    (IF settings.use_upper THEN << "upper" >> ELSE << >>) \o
    (IF settings.use_digits THEN << "digits" >> ELSE << >>) \o
    (IF settings.use_symbols THEN << "symbols" >> ELSE << >>)

class_chars(class) ==
    CASE class = "lower" -> Reachable(ascii_lowercase)
      [] class = "upper" -> Reachable(ascii_uppercase)
      [] class = "digits" -> Reachable(digits)
      [] class = "symbols" -> Reachable(symbols)

character_pool_digits_always(settings) ==
    (IF settings.use_lower THEN class_chars("lower") ELSE << >>) \o
    (IF settings.use_upper THEN class_chars("upper") ELSE << >>) \o
    class_chars("digits") \o
    (IF settings.use_symbols THEN class_chars("symbols") ELSE << >>)

\* character_pool after the four tests
character_pool(settings) ==
    (IF settings.use_lower THEN class_chars("lower") ELSE << >>) \o
    (IF settings.use_upper THEN class_chars("upper") ELSE << >>) \o
    (IF settings.use_digits THEN class_chars("digits") ELSE << >>) \o
    (IF settings.use_symbols THEN class_chars("symbols") ELSE << >>)

\* every value guaranteed_chars can have after the four tests: one
\* random.choice per enabled class, in the order of the tests
guaranteed_chars(settings) ==
    LET classes == enabled_classes(settings)
    IN  { g \in [1..Len(classes) -> Range(character_pool(settings))] :
            \A i \in 1..Len(classes) : g[i] \in Range(class_chars(classes[i])) }

Return(text) == [exc |-> "none", text |-> text]

Raise(exc) == [exc |-> exc, text |-> << >>]

\* no call has been made
Pending == [exc |-> "pending", text |-> << >>]

remaining_length_too_long(length, guaranteed) == length

remaining_length(length, guaranteed) == length - Len(guaranteed)

\* random.shuffle(list); "".join(list): out is one of the strings this can
\* return
shuffled(list, out) ==
    \E p \in Permutations(1..Len(list)) : out = Return(permuted(list, p))

\* the branch taken when length < len(guaranteed_chars):
\* random.shuffle(guaranteed_chars); "".join(guaranteed_chars[:length])
truncated_untruncated(guaranteed, length, out) ==
    shuffled(guaranteed, out)

truncated(guaranteed, length, out) ==
    \E p \in Permutations(1..Len(guaranteed)) :
        out = Return(slice_to(permuted(guaranteed, p), length))

\* the last three statements: fill from the pool (random.choice of an
\* empty sequence raises IndexError), shuffle, join
filled(guaranteed, pool, length, out) ==
    LET n == remaining_length(length, guaranteed)
    IN  IF n <= 0 THEN shuffled(guaranteed, out)
        ELSE IF pool = << >> THEN out = Raise("IndexError")
        ELSE \E draws \in [1..n -> Range(pool)] :
                shuffled(guaranteed \o draws, out)

\* generate_password(settings) as a relation: out is one of its outcomes
\* over all random choices
generate_password_unchecked_pool(settings, out) ==
    LET length == settings.length
        pool   == character_pool(settings)
    IN  \E g \in guaranteed_chars(settings) :
            IF length < Len(g) THEN truncated(g, length, out)
            ELSE filled(g, pool, length, out)

generate_password(settings, out) ==
    LET length == settings.length
        pool   == character_pool(settings)
    IN  IF pool = << >> THEN out = Return(ERROR_TEXT)
        ELSE \E g \in guaranteed_chars(settings) :
                IF length < Len(g) THEN truncated(g, length, out)
                ELSE filled(g, pool, length, out)

(***************************************************************************)
(* The settings table and its file.                                        *)
(***************************************************************************)
Users == 1..NumUsers

user_id_str_constant(user_id) == ToString(1)

\* str(user_id)
user_id_str(user_id) == ToString(user_id)

get_default_settings_short ==
    [ length |-> 3, use_upper |-> TRUE, use_lower |-> TRUE,
      use_digits |-> TRUE, use_symbols |-> TRUE ]

get_default_settings ==
    [ length |-> 16, use_upper |-> TRUE, use_lower |-> TRUE,
      use_digits |-> TRUE, use_symbols |-> TRUE ]

json_dump_requoted_keys(settings) ==
    { << "'" \o k \o "'", settings[k] >> : k \in DOMAIN settings }

\* json.dump of the table: a JSON object, the set of its members
json_dump(settings) == { << k, settings[k] >> : k \in DOMAIN settings }

\* json.load of such a document
json_load(doc) ==
    [ k \in { m[1] : m \in doc } |-> (CHOOSE m \in doc : m[1] = k)[2] ]

NoDoc == { }

\* a file that open() refuses to read
UnreadableFile == [state |-> "unreadable", doc |-> NoDoc]

\* a file whose bytes are not UTF-8
UndecodableFile == [state |-> "undecodable", doc |-> NoDoc]

\* a file that is there but is not a JSON document (cut short, or garbage)
MalformedFile == [state |-> "malformed", doc |-> NoDoc]

MissingFile == [state |-> "missing", doc |-> NoDoc]

JsonFile(doc) == [state |-> "json", doc |-> doc]

EmptyTable == << >>

NoConfig ==
    [ length |-> 0, use_upper |-> FALSE, use_lower |-> FALSE,
      use_digits |-> FALSE, use_symbols |-> FALSE ]

Event(op, config, text) == [op |-> op, config |-> config, text |-> text]

LogError(what) == Event("log_error", NoConfig, << what >>)

\* load_user_settings(): the table it returns, or the exception it lets
\* through, and what it logs
load_user_settings(f) ==
    CASE f.state = "missing" ->
            [exc |-> "none", table |-> EmptyTable, log |-> << >>]
      [] f.state = "unreadable" ->
            [exc |-> "PermissionError", table |-> EmptyTable, log |-> << >>]
      [] f.state = "undecodable" ->
            [exc |-> "UnicodeDecodeError", table |-> EmptyTable, log |-> << >>]
      [] f.state = "malformed" ->
            [exc |-> "none", table |-> EmptyTable,
             log |-> << LogError("JSONDecodeError") >>]
      [] f.state = "json" ->
            [exc |-> "none", table |-> json_load(f.doc), log |-> << >>]

\* what the disk does to one save: the write goes through, open() fails
\* and the file stays as it was, or the write fails after open() has
\* truncated the file
WriteOutcomes == { "written", "open_fails", "write_fails" }

save_user_settings_uncaught(settings, f, disk) ==
    CASE disk = "written" ->
            [file |-> JsonFile(json_dump(settings)),
             events |-> << Event("save", NoConfig, << >>) >>]
      [] disk = "open_fails" ->
            [file |-> f, events |-> << Event("raise", NoConfig, << "IOError" >>) >>]
      [] disk = "write_fails" ->
            [file |-> MalformedFile,
             events |-> << Event("raise", NoConfig, << "IOError" >>) >>]

\* save_user_settings(settings): the file afterwards and what is logged
save_user_settings(settings, f, disk) ==
    CASE disk = "written" ->
            [file |-> JsonFile(json_dump(settings)),
             events |-> << Event("save", NoConfig, << >>) >>]
      [] disk = "open_fails" ->
            [file |-> f, events |-> << LogError("IOError") >>]
      [] disk = "write_fails" ->
            [file |-> MalformedFile, events |-> << LogError("IOError") >>]

get_user_config_always_default(table, user_id) ==
    [ k \in DOMAIN table \cup { user_id_str(user_id) } |->
        IF k = user_id_str(user_id) THEN get_default_settings ELSE table[k] ]

get_user_config_forgets_others(table, user_id) ==
    IF user_id_str(user_id) \in DOMAIN table
    THEN table
    ELSE [ k \in { user_id_str(user_id) } |-> get_default_settings ]

\* get_user_config(user_id): the table after the call (the record is
\* user_settings[str(user_id)] of that table)
get_user_config(table, user_id) ==
    IF user_id_str(user_id) \in DOMAIN table
    THEN table
    ELSE [ k \in DOMAIN table \cup { user_id_str(user_id) } |->
             IF k \in DOMAIN table THEN table[k] ELSE get_default_settings ]

(***************************************************************************)
(* The handlers.                                                           *)
(***************************************************************************)
\* the three texts shown above the menu
WELCOME_MESSAGE == << "welcome" >>

SETTINGS_CHANGED == << "settings changed" >>

NEW_SETTINGS_FOR_NEXT == << "new settings for the next password" >>

\* where the characters of a generated password are not enumerated, this
\* stands for a text of the configured length with every enabled class
SOME_PASSWORD == << "password" >>

\* and this for the text that the branch length < len(guaranteed_chars)
\* returns
SHORT_PASSWORD == << "short password" >>

\* callback data the keyboard never sends
OTHER_DATA == "other"

Actions ==
    { LEN_INCR, LEN_DECR, LEN_INFO, TOGGLE_UPPER, TOGGLE_LOWER,
      TOGGLE_DIGITS, TOGGLE_SYMBOLS, GENERATE, OTHER_DATA }

button_action_unclamped(config, action) ==
    CASE action = LEN_INCR -> [config EXCEPT !.length = config.length + 1]
      [] action = LEN_DECR -> [config EXCEPT !.length = config.length - 1]
      [] action = TOGGLE_UPPER -> [config EXCEPT !.use_upper = ~config.use_upper]
      [] action = TOGGLE_LOWER -> [config EXCEPT !.use_lower = ~config.use_lower]
      [] action = TOGGLE_DIGITS -> [config EXCEPT !.use_digits = ~config.use_digits]
      [] action = TOGGLE_SYMBOLS -> [config EXCEPT !.use_symbols = ~config.use_symbols]
      [] OTHER -> config

button_action_generate_writes(config, action) ==
    CASE action = LEN_INCR -> [config EXCEPT !.length = Min(64, config.length + 1)]
      [] action = LEN_DECR -> [config EXCEPT !.length = Max(4, config.length - 1)]
      [] action = TOGGLE_UPPER -> [config EXCEPT !.use_upper = ~config.use_upper]
      [] action = TOGGLE_LOWER -> [config EXCEPT !.use_lower = ~config.use_lower]
      [] action = TOGGLE_DIGITS -> [config EXCEPT !.use_digits = ~config.use_digits]
      [] action = TOGGLE_SYMBOLS -> [config EXCEPT !.use_symbols = ~config.use_symbols]
      [] action = GENERATE -> [config EXCEPT !.length = Max(4, config.length - 1)]
      [] OTHER -> config

button_action_toggle_sets(config, action) ==
    CASE action = LEN_INCR -> [config EXCEPT !.length = Min(64, config.length + 1)]
      [] action = LEN_DECR -> [config EXCEPT !.length = Max(4, config.length - 1)]
      [] action = TOGGLE_UPPER -> [config EXCEPT !.use_upper = TRUE]
      [] action = TOGGLE_LOWER -> [config EXCEPT !.use_lower = ~config.use_lower]
      [] action = TOGGLE_DIGITS -> [config EXCEPT !.use_digits = ~config.use_digits]
      [] action = TOGGLE_SYMBOLS -> [config EXCEPT !.use_symbols = ~config.use_symbols]
      [] OTHER -> config

button_action_decr_floor_5(config, action) ==
    CASE action = LEN_INCR -> [config EXCEPT !.length = Min(64, config.length + 1)]
      [] action = LEN_DECR -> [config EXCEPT !.length = Max(5, config.length - 1)]
      [] action = TOGGLE_UPPER -> [config EXCEPT !.use_upper = ~config.use_upper]
      [] action = TOGGLE_LOWER -> [config EXCEPT !.use_lower = ~config.use_lower]
      [] action = TOGGLE_DIGITS -> [config EXCEPT !.use_digits = ~config.use_digits]
      [] action = TOGGLE_SYMBOLS -> [config EXCEPT !.use_symbols = ~config.use_symbols]
      [] OTHER -> config

button_action_wrong_key(config, action) ==
    CASE action = LEN_INCR -> [config EXCEPT !.length = Min(64, config.length + 1)]
      [] action = LEN_DECR -> [config EXCEPT !.length = Max(4, config.length - 1)]
      [] action = TOGGLE_UPPER -> [config EXCEPT !.use_upper = ~config.use_upper]
      [] action = TOGGLE_LOWER -> [config EXCEPT !.use_lower = ~config.use_lower]
      [] action = TOGGLE_DIGITS -> [config EXCEPT !.use_digits = ~config.use_digits]
      [] action = TOGGLE_SYMBOLS -> [config EXCEPT !.use_digits = ~config.use_digits]
      [] OTHER -> config

\* the if/elif chain of button_callback: the record after the branch
button_action(config, action) ==
    CASE action = LEN_INCR -> [config EXCEPT !.length = Min(64, config.length + 1)]
      [] action = LEN_DECR -> [config EXCEPT !.length = Max(4, config.length - 1)]
      [] action = TOGGLE_UPPER -> [config EXCEPT !.use_upper = ~config.use_upper]
      [] action = TOGGLE_LOWER -> [config EXCEPT !.use_lower = ~config.use_lower]
      [] action = TOGGLE_DIGITS -> [config EXCEPT !.use_digits = ~config.use_digits]
      [] action = TOGGLE_SYMBOLS -> [config EXCEPT !.use_symbols = ~config.use_symbols]
      [] OTHER -> config

needs_update_always(action) == TRUE

\* needs_update at the end of the chain
needs_update(action) ==
    action \in { LEN_INCR, LEN_DECR, TOGGLE_UPPER, TOGGLE_LOWER,
                 TOGGLE_DIGITS, TOGGLE_SYMBOLS, GENERATE }

build_menu_shows_default(table, user_id, message_text, is_callback) ==
    LET after == get_user_config(table, user_id)
    IN  [ table |-> after,
          events |-> << Event(IF is_callback THEN "edit_menu" ELSE "reply_menu",
                              get_default_settings, message_text) >> ]

\* build_menu: the table after its get_user_config, and the menu it shows
\* (an edit of the menu message for a callback, a new message for /start)
build_menu(table, user_id, message_text, is_callback) ==
    LET after == get_user_config(table, user_id)
    IN  [ table |-> after,
          events |-> << Event(IF is_callback THEN "edit_menu" ELSE "reply_menu",
                              after[user_id_str(user_id)], message_text) >> ]

\* the call generate_password(config) made by button_callback: the string
\* itself when nothing is enabled, and otherwise which of the two kinds of
\* password it is
password_for(config, out) ==
    IF character_pool(config) = << >>
    THEN generate_password(config, out)
    ELSE IF config.length < Len(enabled_classes(config))
         THEN out = Return(SHORT_PASSWORD)
         ELSE out = Return(SOME_PASSWORD)

Update(kind, user_id, action) ==
    [kind |-> kind, user |-> user_id, action |-> action]

NoCall == /\ gen_settings' = NoConfig
          /\ gen_result' = Pending

\* start_command
StartCommand(user_id) ==
    /\ phase = "running"
    /\ updates < MaxUpdates
    /\ LET menu == build_menu(user_settings, user_id, WELCOME_MESSAGE, FALSE)
       IN  /\ user_settings' = menu.table
           /\ events' = menu.events
    /\ last' = Update("start", user_id, "/start")
    /\ before' = user_settings
    /\ updates' = updates + 1
    /\ NoCall
    /\ UNCHANGED << file, phase, calls >>

read_modify_write_stale(table, dispatched, user_id, action) ==
    LET created == get_user_config(table, user_id)
        key     == user_id_str(user_id)
        old     == get_user_config(dispatched, user_id)[key]
    IN  [created EXCEPT ![key] = button_action(old, action)]

\* config = get_user_config(user_id) and the if/elif chain, which run
\* without an await between them: the table afterwards.  The record the
\* chain reads is the one in the table as it is now, not as it was when
\* the update was dispatched.
read_modify_write(table, dispatched, user_id, action) ==
    LET created == get_user_config(table, user_id)
        key     == user_id_str(user_id)
    IN  [created EXCEPT ![key] = button_action(created[key], action)]

\* button_callback, from its first line to its return (or to the exception
\* that leaves it); disks are the ways the write of the file may go
button_callback(user_id, action, disks) ==
    /\ LET created == get_user_config(user_settings, user_id)
           key     == user_id_str(user_id)
           table   == read_modify_write(user_settings, user_settings, user_id, action)
       IN  IF action = GENERATE
           THEN /\ gen_settings' = created[key]
                /\ \/ \* generate_password raises: the exception leaves the
                      \* handler
                      /\ user_settings' = table
                      /\ UNCHANGED file
                      /\ password_for(gen_settings', gen_result')
                      /\ gen_result'.exc # "none"
                      /\ events' = << Event("answer", NoConfig, << >>),
                                      Event("raise", NoConfig, << gen_result'.exc >>) >>
                   \/ \* it returns: send_message, save_user_settings,
                      \* build_menu
                      \E disk \in disks :
                        LET saved == save_user_settings(table, file, disk)
                            menu  == build_menu(table, user_id, NEW_SETTINGS_FOR_NEXT, TRUE)
                        IN  /\ user_settings' = menu.table
                            /\ file' = saved.file
                            /\ password_for(gen_settings', gen_result')
                            /\ gen_result'.exc = "none"
                            /\ events' = << Event("answer", NoConfig, << >>),
                                            Event("send_message", NoConfig, gen_result'.text) >>
                                           \o saved.events \o menu.events
           ELSE /\ NoCall
                /\ IF needs_update(action)
                   THEN \E disk \in disks :
                          LET saved == save_user_settings(table, file, disk)
                              menu  == build_menu(table, user_id, SETTINGS_CHANGED, TRUE)
                          IN  /\ user_settings' = menu.table
                              /\ file' = saved.file
                              /\ events' = << Event("answer", NoConfig, << >>) >>
                                             \o saved.events \o menu.events
                   ELSE /\ user_settings' = table
                        /\ events' = << Event("answer", NoConfig, << >>) >>
                        /\ UNCHANGED file
    /\ last' = Update("callback", user_id, action)
    /\ before' = user_settings

\* button_callback, for a press that is not "generate"
ButtonCallback(user_id, action) ==
    /\ phase = "running"
    /\ updates < MaxUpdates
    /\ action # GENERATE
    /\ button_callback(user_id, action, WriteOutcomes)
    /\ updates' = updates + 1
    /\ UNCHANGED << phase, calls >>

\* button_callback, for a press of "generate"
GenerateCallback(user_id) ==
    /\ phase = "running"
    /\ updates < MaxUpdates
    /\ button_callback(user_id, GENERATE, WriteOutcomes)
    /\ updates' = updates + 1
    /\ UNCHANGED << phase, calls >>

\* module start-up: user_settings = load_user_settings()
Boot(f) ==
    LET loaded == load_user_settings(f)
    IN  [ phase  |-> IF loaded.exc = "none" THEN "running" ELSE "crashed",
          table  |-> loaded.table,
          events |-> IF loaded.exc = "none" THEN loaded.log
                     ELSE << Event("raise", NoConfig, << loaded.exc >>) >> ]

\* the process is stopped and started again
Restart ==
    /\ phase = "running"
    /\ updates < MaxUpdates
    /\ user_settings' = Boot(file).table
    /\ phase' = Boot(file).phase
    /\ events' = Boot(file).events
    /\ last' = Update("boot", 0, "boot")
    /\ before' = EmptyTable
    /\ updates' = updates + 1
    /\ NoCall
    /\ UNCHANGED << file, calls >>

\* the records a settings file written by an earlier run holds
InitConfigs ==
    { [get_default_settings EXCEPT !.length = 64],
      [ length |-> 4, use_upper |-> FALSE, use_lower |-> FALSE,
        use_digits |-> FALSE, use_symbols |-> FALSE ] }

\* the users that earlier run had heard from
InitUsers == { 1, 2 } \cap Users

InitTables ==
    UNION { [ { user_id_str(u) : u \in present } -> InitConfigs ] :
            present \in SUBSET InitUsers }

InitFiles ==
    { MissingFile, MalformedFile, UnreadableFile, UndecodableFile }
    \cup { JsonFile(json_dump(t)) : t \in InitTables }

Init ==
    /\ file \in InitFiles
    /\ user_settings = Boot(file).table
    /\ phase = Boot(file).phase
    /\ events = Boot(file).events
    /\ last = Update("boot", 0, "boot")
    /\ before = EmptyTable
    /\ updates = 0
    /\ gen_settings = NoConfig
    /\ gen_result = Pending
    /\ calls = << >>

Next ==
    \/ \E u \in Users : StartCommand(u)
    \/ \E u \in Users : \E a \in Actions : ButtonCallback(u, a)
    \/ \E u \in Users : GenerateCallback(u)
    \/ Restart

vars ==
    << user_settings, file, phase, last, before, events, updates,
       gen_settings, gen_result, calls >>

Spec == Init /\ [][Next]_vars

(***************************************************************************)
(* The generator on its own: any settings dict, one call.                  *)
(***************************************************************************)
GenConfigs ==
    [ length : (0 - MaxNegLen)..MaxGenLen, use_upper : BOOLEAN,
      use_lower : BOOLEAN, use_digits : BOOLEAN, use_symbols : BOOLEAN ]

GenInit ==
    /\ gen_settings \in GenConfigs
    /\ gen_result = Pending
    /\ user_settings = EmptyTable
    /\ file = MissingFile
    /\ phase = "generator"
    /\ last = Update("call", 0, "generate_password")
    /\ before = EmptyTable
    /\ events = << >>
    /\ updates = 0
    /\ calls = << >>

GeneratePassword ==
    /\ gen_result = Pending
    /\ generate_password(gen_settings, gen_result')
    /\ UNCHANGED << gen_settings, user_settings, file, phase, last, before,
                    events, updates, calls >>

GenNext == GeneratePassword

GenSpec == GenInit /\ [][GenNext]_vars

(***************************************************************************)
(* One user and the menu: button presses without end, from first contact.  *)
(***************************************************************************)
PressInit ==
    /\ Init
    /\ file = MissingFile

Press(action) ==
    /\ phase = "running"
    /\ button_callback(1, action, { "written" })
    /\ UNCHANGED << phase, updates, calls >>

PressNext == \E a \in Actions : Press(a)

PressSpec == PressInit /\ [][PressNext]_vars

(***************************************************************************)
(* Overlapping callbacks: NumCalls updates are dispatched together and     *)
(* their button_callback coroutines run interleaved, each giving up        *)
(* control at its awaits (query.answer, send_message, the menu edit).      *)
(***************************************************************************)
Calls == 1..NumCalls

ConcActions == { LEN_INCR, LEN_DECR, TOGGLE_UPPER, GENERATE, LEN_INFO }

\* a coroutine: whose press it handles, where it is suspended, what it
\* has done to the outside world, and its turn among the coroutines that
\* have run lines 174-205
Call(user_id, action) ==
    [ user |-> user_id, action |-> action, pc |-> "called",
      turn |-> 0, events |-> << >> ]

Resumed(i, pc, turn, did) ==
    calls' = [calls EXCEPT ![i] = [@ EXCEPT !.pc = pc, !.turn = turn,
                                            !.events = @ \o did]]

Turns == Cardinality({ j \in Calls : calls[j].turn > 0 })

ConcInit ==
    /\ file \in { MissingFile }
                \cup { JsonFile(json_dump(t)) : t \in [ { user_id_str(1) } -> InitConfigs ] }
    /\ user_settings = Boot(file).table
    /\ phase = Boot(file).phase
    /\ events = Boot(file).events
    /\ last = Update("boot", 0, "boot")
    /\ before = user_settings
    /\ updates = 0
    /\ gen_settings = NoConfig
    /\ gen_result = Pending
    /\ calls \in [ Calls -> { Call(u, a) : u \in InitUsers, a \in ConcActions } ]

\* lines 171-172: up to await query.answer()
Answer(i) ==
    /\ calls[i].pc = "called"
    /\ Resumed(i, "answering", 0, << Event("answer", NoConfig, << >>) >>)
    /\ NoCall
    /\ UNCHANGED << user_settings, file, phase, last, before, events, updates >>

\* lines 174-209, from the return of query.answer() to the next await
\* (send_message for generate, the menu edit for the other six) or to the
\* end
AfterAnswer(i) ==
    /\ calls[i].pc = "answering"
    /\ LET user_id == calls[i].user
           action  == calls[i].action
           key     == user_id_str(user_id)
           table   == read_modify_write(user_settings, before, user_id, action)
       IN  IF action = GENERATE
           THEN /\ gen_settings' = table[key]
                /\ password_for(gen_settings', gen_result')
                /\ user_settings' = table
                /\ UNCHANGED file
                /\ IF gen_result'.exc # "none"
                   THEN Resumed(i, "raised", Turns + 1,
                                << Event("raise", NoConfig, << gen_result'.exc >>) >>)
                   ELSE Resumed(i, "sending", Turns + 1,
                                << Event("send_message", NoConfig, gen_result'.text) >>)
           ELSE /\ NoCall
                /\ IF needs_update(action)
                   THEN LET saved == save_user_settings(table, file, "written")
                            menu  == build_menu(table, user_id, SETTINGS_CHANGED, TRUE)
                        IN  /\ user_settings' = menu.table
                            /\ file' = saved.file
                            /\ Resumed(i, "editing", Turns + 1,
                                       saved.events \o menu.events)
                   ELSE /\ user_settings' = table
                        /\ UNCHANGED file
                        /\ Resumed(i, "done", Turns + 1, << >>)
    /\ UNCHANGED << phase, last, before, events, updates >>

\* lines 203-209 of a generate, from the return of send_message to the
\* menu edit
AfterSend(i) ==
    /\ calls[i].pc = "sending"
    /\ LET saved == save_user_settings(user_settings, file, "written")
           menu  == build_menu(user_settings, calls[i].user, NEW_SETTINGS_FOR_NEXT, TRUE)
       IN  /\ user_settings' = menu.table
           /\ file' = saved.file
           /\ Resumed(i, "editing", calls[i].turn, saved.events \o menu.events)
    /\ NoCall
    /\ UNCHANGED << phase, last, before, events, updates >>

\* the menu edit returns and so does the coroutine
AfterEdit(i) ==
    /\ calls[i].pc = "editing"
    /\ Resumed(i, "done", calls[i].turn, << >>)
    /\ NoCall
    /\ UNCHANGED << user_settings, file, phase, last, before, events, updates >>

ConcNext ==
    \/ \E i \in Calls : Answer(i)
    \/ \E i \in Calls : AfterAnswer(i)
    \/ \E i \in Calls : AfterSend(i)
    \/ \E i \in Calls : AfterEdit(i)

ConcSpec == ConcInit /\ [][ConcNext]_vars

(***************************************************************************)
(* Vocabulary of the properties.                                           *)
(***************************************************************************)
\* the record of the user whose update was handled last
Pressed == user_settings[user_id_str(last.user)]

IsCallback(update, action) ==
    update.kind = "callback" /\ update.action = action

HasEvent(op) == \E i \in 1..Len(events) : events[i].op = op

\* the full alphabet of a class, whatever the random source can reach
Alphabet(class) ==
    CASE class = "lower" -> Range(ascii_lowercase)
      [] class = "upper" -> Range(ascii_uppercase)
      [] class = "digits" -> Range(digits)
      [] class = "symbols" -> Range(symbols)

Classes == { "lower", "upper", "digits", "symbols" }

Flag(settings, class) ==
    CASE class = "lower" -> settings.use_lower
      [] class = "upper" -> settings.use_upper
      [] class = "digits" -> settings.use_digits
      [] class = "symbols" -> settings.use_symbols

Enabled(settings) == { c \in Classes : Flag(settings, c) }

Called == gen_result # Pending

\* every character comes from an enabled class and no class gives two
OnePerClassAtMost(text, settings) ==
    /\ \A i \in 1..Len(text) :
          \E c \in Enabled(settings) : text[i] \in Alphabet(c)
    /\ \A i, j \in 1..Len(text) :
          i # j => ~ \E c \in Classes : text[i] \in Alphabet(c) /\ text[j] \in Alphabet(c)

(***************************************************************************)
(* C1.  Every record of the settings table has an integer length between   *)
(* 4 and 64, after any sequence of /start commands, button presses         *)
(* (len_incr, len_decr, the toggles, generate, len_info, other data) and   *)
(* restarts by any users.                                                  *)
(***************************************************************************)
C1_LengthClamped ==
    \A k \in DOMAIN user_settings :
        user_settings[k].length \in 4..64

\* len_incr has been pressed on a record that was at 64 and is at 64
C1_Witness ==
    /\ IsCallback(last, LEN_INCR)
    /\ user_id_str(last.user) \in DOMAIN before
    /\ before[user_id_str(last.user)].length = 64
    /\ Pressed.length = 64

(***************************************************************************)
(* C2.  When at least one class is enabled and length is at least the      *)
(* number of enabled classes, generate_password returns a string of        *)
(* exactly length characters that has a character of every enabled class,  *)
(* whatever the random choices and the shuffle.                            *)
(***************************************************************************)
C2_ExactLengthAllClasses ==
    ( /\ Called
      /\ phase = "generator"
      /\ Enabled(gen_settings) # { }
      /\ gen_settings.length >= Cardinality(Enabled(gen_settings)) )
    => /\ gen_result.exc = "none"
       /\ Len(gen_result.text) = gen_settings.length
       /\ \A c \in Enabled(gen_settings) :
             \E i \in 1..Len(gen_result.text) : gen_result.text[i] \in Alphabet(c)

\* three classes, one character more than the guaranteed ones
C2_Witness ==
    /\ Called
    /\ phase = "generator"
    /\ Cardinality(Enabled(gen_settings)) = 3
    /\ gen_settings.length = 4
    /\ Len(gen_result.text) = 4

(***************************************************************************)
(* C3.  A press of generate on a record with all four classes off: the     *)
(* call of generate_password returns the fixed error string (nothing is    *)
(* raised), that string is sent to the user, and the handler runs to its   *)
(* end (the table is saved and the menu is shown again).                   *)
(***************************************************************************)
C3_ErrorStringDelivered ==
    ( /\ Called
      /\ Enabled(gen_settings) = { } )
    => /\ gen_result = Return(ERROR_TEXT)
       /\ IsCallback(last, GENERATE)
            => /\ \E i \in 1..Len(events) :
                     /\ events[i].op = "send_message"
                     /\ events[i].text = ERROR_TEXT
               /\ ~ HasEvent("raise")
               /\ events[Len(events)].op = "edit_menu"

C3_Witness ==
    /\ IsCallback(last, GENERATE)
    /\ Enabled(gen_settings) = { }
    /\ gen_settings.length = 4
    /\ HasEvent("send_message")

(***************************************************************************)
(* C4 as stated.  When length is smaller than the number of enabled        *)
(* classes (some class enabled, length not negative), generate_password    *)
(* returns a shuffled truncation of the guaranteed characters only, and    *)
(* the output is shorter than length.                                      *)
(***************************************************************************)
C4_ShorterThanRequested ==
    ( /\ Called
      /\ phase = "generator"
      /\ Enabled(gen_settings) # { }
      /\ gen_settings.length >= 0
      /\ gen_settings.length < Cardinality(Enabled(gen_settings)) )
    => /\ gen_result.exc = "none"
       /\ OnePerClassAtMost(gen_result.text, gen_settings)
       /\ Len(gen_result.text) < gen_settings.length

(***************************************************************************)
(* C4 as amended.  When length is smaller than the number of enabled       *)
(* classes (and some class is enabled), generate_password returns a        *)
(* shuffled truncation of the guaranteed characters only (at most one per  *)
(* enabled class, none drawn from the pool); the output is never shorter   *)
(* than length: it has exactly length characters when length >= 0, and     *)
(* drops -length of the guaranteed characters when length < 0.  It is      *)
(* shorter than the number of enabled classes.                             *)
(***************************************************************************)
C4_TruncatedToRequested ==
    ( /\ Called
      /\ phase = "generator"
      /\ Enabled(gen_settings) # { }
      /\ gen_settings.length < Cardinality(Enabled(gen_settings)) )
    => /\ gen_result.exc = "none"
       /\ OnePerClassAtMost(gen_result.text, gen_settings)
       /\ Len(gen_result.text) >= gen_settings.length
       /\ gen_settings.length >= 0
            => Len(gen_result.text) = gen_settings.length
       /\ gen_settings.length < 0
            => Len(gen_result.text) =
                 Max(0, Cardinality(Enabled(gen_settings)) + gen_settings.length)
       /\ Len(gen_result.text) < Cardinality(Enabled(gen_settings))

\* four classes, two characters asked for, two returned
C4_Witness ==
    /\ Called
    /\ phase = "generator"
    /\ Cardinality(Enabled(gen_settings)) = 4
    /\ gen_settings.length = 2
    /\ Len(gen_result.text) = 2

(***************************************************************************)
(* C5.  Handling a press of generate changes no record: every record of    *)
(* the table, the pressing user's and every other user's, is the same      *)
(* after the handler as before it.                                         *)
(***************************************************************************)
C5_GenerateReadsOnly ==
    [][ IsCallback(last', GENERATE)
        => \A k \in DOMAIN user_settings :
              /\ k \in DOMAIN user_settings'
              /\ user_settings'[k] = user_settings[k] ]_vars

\* generate pressed by a user whose record was not the default, with
\* another user in the table
C5_Witness ==
    /\ IsCallback(last, GENERATE)
    /\ gen_result.exc = "none"
    /\ user_id_str(last.user) \in DOMAIN before
    /\ before[user_id_str(last.user)] # get_default_settings
    /\ Cardinality(DOMAIN before) = 2

(***************************************************************************)
(* C6.  A user's first /start or button press creates the record           *)
(* length = 16 with the four classes on, and a first press of a mutating   *)
(* button leaves that record with the button applied to it.  A later       *)
(* update never resets an existing record: it leaves the record as it was  *)
(* or one button step away from it.                                        *)
(***************************************************************************)
C6_Default ==
    [ length |-> 16, use_upper |-> TRUE, use_lower |-> TRUE,
      use_digits |-> TRUE, use_symbols |-> TRUE ]

C6_FirstRecord(action) ==
    CASE action = LEN_INCR -> [C6_Default EXCEPT !.length = 17]
      [] action = LEN_DECR -> [C6_Default EXCEPT !.length = 15]
      [] action = TOGGLE_UPPER -> [C6_Default EXCEPT !.use_upper = FALSE]
      [] action = TOGGLE_LOWER -> [C6_Default EXCEPT !.use_lower = FALSE]
      [] action = TOGGLE_DIGITS -> [C6_Default EXCEPT !.use_digits = FALSE]
      [] action = TOGGLE_SYMBOLS -> [C6_Default EXCEPT !.use_symbols = FALSE]
      [] OTHER -> C6_Default

C6_FieldsChanged(a, b) ==
    Cardinality({ f \in { "length", "use_upper", "use_lower", "use_digits",
                          "use_symbols" } : a[f] # b[f] })

C6_AtMostOneStep(a, b) ==
    /\ C6_FieldsChanged(a, b) <= 1
    /\ a.length - b.length \in { -1, 0, 1 }

C6_LazyDefault ==
    [][ last'.kind \in { "start", "callback" }
        => LET k == user_id_str(last'.user)
           IN  /\ k \in DOMAIN user_settings'
               /\ k \notin DOMAIN user_settings
                    => user_settings'[k] = C6_FirstRecord(last'.action)
               /\ k \in DOMAIN user_settings
                    => C6_AtMostOneStep(user_settings[k], user_settings'[k]) ]_vars

\* the first update of a run that found no file is len_incr, and the
\* record it leaves has length 17
C6_Witness ==
    /\ updates = 1
    /\ before = EmptyTable
    /\ IsCallback(last, LEN_INCR)
    /\ Pressed = [C6_Default EXCEPT !.length = 17]

(***************************************************************************)
(* C7 as stated.  Whenever handling a /start or a button press has changed *)
(* the in-memory table (a lazily created record included) and no write     *)
(* failed, the file holds the whole in-memory table when the handling ends.*)
(***************************************************************************)
C7_WriteFailed == \E i \in 1..Len(events) :
                     events[i].op = "log_error" /\ events[i].text = << "IOError" >>

C7_PersistedOnEveryMutation ==
    [][ ( /\ last'.kind \in { "start", "callback" }
          /\ user_settings' # user_settings
          /\ ~ C7_WriteFailed' )
        => /\ file'.state = "json"
           /\ json_load(file'.doc) = user_settings' ]_vars

(***************************************************************************)
(* C8 as stated.  At start-up, a settings file that is missing,            *)
(* unreadable, not UTF-8 or not JSON is logged and gives the empty table;  *)
(* start-up does not fail.                                                 *)
(***************************************************************************)
C8_LoadFailuresContained ==
    ( /\ last.kind = "boot"
      /\ file.state \in { "missing", "unreadable", "undecodable", "malformed" } )
    => /\ phase = "running"
       /\ user_settings = EmptyTable
       /\ HasEvent("log_error")

(***************************************************************************)
(* C9.  Within one run no key leaves the in-memory table: every key of the *)
(* table before an update is handled is a key of the table after it.       *)
(***************************************************************************)
C9_KeysOnlyGrow ==
    [][ last'.kind \in { "start", "callback" }
        => DOMAIN user_settings \subseteq DOMAIN user_settings' ]_vars

\* a user's first update was handled when another user had a record
C9_Witness ==
    /\ last.kind \in { "start", "callback" }
    /\ Cardinality(DOMAIN before) = 1
    /\ user_id_str(last.user) \notin DOMAIN before
    /\ Cardinality(DOMAIN user_settings) = 2

(***************************************************************************)
(* C10.  A toggle negates the one flag it names in the pressing user's     *)
(* record and leaves the length and the other three flags as they were;    *)
(* the same toggle pressed again by the same user as the next update       *)
(* brings the record back to what it was before the first press.           *)
(***************************************************************************)
C10_Toggles == { TOGGLE_UPPER, TOGGLE_LOWER, TOGGLE_DIGITS, TOGGLE_SYMBOLS }

C10_Named(action) ==
    CASE action = TOGGLE_UPPER -> "use_upper"
      [] action = TOGGLE_LOWER -> "use_lower"
      [] action = TOGGLE_DIGITS -> "use_digits"
      [] action = TOGGLE_SYMBOLS -> "use_symbols"

C10_Found(table, k) ==
    IF k \in DOMAIN table THEN table[k] ELSE C6_Default

C10_ToggleFrame ==
    [][ ( last'.kind = "callback" /\ last'.action \in C10_Toggles )
        => LET k   == user_id_str(last'.user)
               old == C10_Found(user_settings, k)
               new == user_settings'[k]
           IN  /\ new.length = old.length
               /\ \A f \in { "use_upper", "use_lower", "use_digits", "use_symbols" } :
                     new[f] = IF f = C10_Named(last'.action) THEN ~ old[f] ELSE old[f]
               /\ ( last = last' ) => new = C10_Found(before, k) ]_vars

\* toggle_upper pressed twice in a row by a user whose record then is the
\* default again
C10_Witness ==
    /\ updates = 2
    /\ IsCallback(last, TOGGLE_UPPER)
    /\ user_id_str(last.user) \in DOMAIN before
    /\ before[user_id_str(last.user)] = [C6_Default EXCEPT !.use_upper = FALSE]
    /\ Pressed = C6_Default


(***************************************************************************)
(* C11.  The settings state machine has no terminal state: in every record *)
(* reachable from the default, each of the seven button actions is enabled *)
(* and its handling completes (nothing is raised, the menu is shown again) *)
(* in a record that is again valid, the records with all four classes      *)
(* disabled and with length 4 or 64 included; and every record with length *)
(* in 4..64 and any combination of the four booleans is reachable from the *)
(* default by button actions.                                              *)
(***************************************************************************)
C11_Buttons ==
    { LEN_INCR, LEN_DECR, TOGGLE_UPPER, TOGGLE_LOWER, TOGGLE_DIGITS,
      TOGGLE_SYMBOLS, GENERATE }

C11_UserConfigs ==
    [ length : 4..64, use_upper : BOOLEAN, use_lower : BOOLEAN,
      use_digits : BOOLEAN, use_symbols : BOOLEAN ]

\* the records that at most n presses lead to from the records of S
RECURSIVE C11_After(_, _)
C11_After(S, n) ==
    IF n = 0 THEN S
    ELSE LET T == S \cup { button_action(c, a) : c \in S, a \in C11_Buttons }
         IN  IF T = S THEN S ELSE C11_After(T, n - 1)

C11_FromDefault == C11_After({ get_default_settings }, 64)

C11_NoTerminalState ==
    /\ \A k \in DOMAIN user_settings : user_settings[k] \in C11_UserConfigs
    /\ \A a \in C11_Buttons : ENABLED Press(a)
    /\ ( last.kind = "callback" /\ last.action \in C11_Buttons )
          => /\ ~ HasEvent("raise")
             /\ events[Len(events)].op = "edit_menu"
             /\ events[Len(events)].config = Pressed
    /\ C11_FromDefault = C11_UserConfigs

\* generate has been pressed on the record with nothing enabled and length 64
C11_Witness ==
    /\ IsCallback(last, GENERATE)
    /\ Enabled(Pressed) = { }
    /\ Pressed.length = 64
    /\ before = user_settings
    /\ gen_result = Return(ERROR_TEXT)

(***************************************************************************)
(* C13.  For every settings dict with at least one enabled class, every    *)
(* character of the string generate_password returns belongs to the        *)
(* alphabet of an enabled class, and none belongs to the alphabet of a     *)
(* disabled class.                                                         *)
(***************************************************************************)
C13_OnlyEnabledClasses ==
    ( Called /\ Enabled(gen_settings) # { } /\ gen_result.exc = "none" )
       => \A i \in 1..Len(gen_result.text) :
             /\ \E c \in Enabled(gen_settings) : gen_result.text[i] \in Alphabet(c)
             /\ \A c \in Classes \ Enabled(gen_settings) :
                   gen_result.text[i] \notin Alphabet(c)

\* a password of four characters drawn with upper case and symbols enabled,
\* both the guaranteed characters and the fill
C13_Witness ==
    /\ Called
    /\ Enabled(gen_settings) = { "upper", "symbols" }
    /\ gen_result.exc = "none"
    /\ Len(gen_result.text) = 4
    /\ gen_settings.length = 4

(***************************************************************************)
(* C14.  len_incr takes the pressing user's length from n to n+1 when      *)
(* n < 64 and leaves it at 64 when n = 64; len_decr takes it from n to n-1 *)
(* when n > 4 and leaves it at 4 when n = 4; neither changes a boolean.    *)
(* len_incr followed by len_decr restores the length when 4 <= n < 64, and *)
(* len_decr followed by len_incr restores it when 4 < n <= 64.             *)
(***************************************************************************)
C14_LengthSteps ==
    [][ ( last'.kind = "callback" /\ last'.action \in { LEN_INCR, LEN_DECR } )
        => LET k   == user_id_str(last'.user)
               old == C10_Found(user_settings, k)
               new == user_settings'[k]
               n   == old.length
               m   == C10_Found(before, k).length
           IN  /\ last'.action = LEN_INCR
                    => new.length = IF n < 64 THEN n + 1 ELSE 64
               /\ last'.action = LEN_DECR
                    => new.length = IF n > 4 THEN n - 1 ELSE 4
               /\ new.use_upper = old.use_upper
               /\ new.use_lower = old.use_lower
               /\ new.use_digits = old.use_digits
               /\ new.use_symbols = old.use_symbols
               /\ ( /\ IsCallback(last, LEN_INCR) /\ last.user = last'.user
                    /\ last'.action = LEN_DECR /\ 4 <= m /\ m < 64 )
                    => new.length = m
               /\ ( /\ IsCallback(last, LEN_DECR) /\ last.user = last'.user
                    /\ last'.action = LEN_INCR /\ 4 < m /\ m <= 64 )
                    => new.length = m ]_vars

\* len_decr has been pressed on a record that a press had found at 63 and
\* left at 64: it is at 63 again
C14_Witness ==
    /\ IsCallback(last, LEN_DECR)
    /\ user_id_str(last.user) \in DOMAIN before
    /\ before[user_id_str(last.user)].length = 64
    /\ Pressed.length = 63
    /\ Enabled(Pressed) = { "lower", "digits" }

(***************************************************************************)
(* C15.  In every state reachable from first contact through button        *)
(* presses, the record's length is at least the number of its enabled      *)
(* classes, so a generate issued through the bot yields the fixed error    *)
(* string (no class enabled) or a password of the full kind (configured    *)
(* length, every enabled class); the branch length < len(guaranteed_chars) *)
(* of generate_password is never taken.                                    *)
(***************************************************************************)
C15_NeverTruncated ==
    /\ \A k \in DOMAIN user_settings :
          /\ user_settings[k].length >= Cardinality(Enabled(user_settings[k]))
          /\ user_settings[k].length >= 4
    /\ IsCallback(last, GENERATE)
          => /\ gen_settings = Pressed
             /\ gen_settings.length >= Len(enabled_classes(gen_settings))
             /\ gen_result # Return(SHORT_PASSWORD)
             /\ gen_result = IF Enabled(gen_settings) = { }
                             THEN Return(ERROR_TEXT)
                             ELSE Return(SOME_PASSWORD)
             /\ HasEvent("send_message")

\* generate has been pressed with length 4 and all four classes enabled,
\* where the length equals the number of guaranteed characters
C15_Witness ==
    /\ IsCallback(last, GENERATE)
    /\ Pressed.length = 4
    /\ Enabled(Pressed) = Classes
    /\ gen_result = Return(SOME_PASSWORD)

(***************************************************************************)
(* C16.  Per-user isolation: a button callback from user A reads and       *)
(* changes only the record stored under A's user-id.  For every other key  *)
(* B of the table, B's record is the same before and after A's callback,   *)
(* whatever the action; no key other than A's appears or disappears; and   *)
(* A's new record is determined by A's old record and the action alone.    *)
(***************************************************************************)
C16_Step(old, action) ==
    CASE action = LEN_INCR -> [old EXCEPT !.length = IF @ < 64 THEN @ + 1 ELSE 64]
      [] action = LEN_DECR -> [old EXCEPT !.length = IF @ > 4 THEN @ - 1 ELSE 4]
      [] action = TOGGLE_UPPER -> [old EXCEPT !.use_upper = ~ @]
      [] action = TOGGLE_LOWER -> [old EXCEPT !.use_lower = ~ @]
      [] action = TOGGLE_DIGITS -> [old EXCEPT !.use_digits = ~ @]
      [] action = TOGGLE_SYMBOLS -> [old EXCEPT !.use_symbols = ~ @]
      [] OTHER -> old

C16_OthersUntouched ==
    [][ last'.kind = "callback"
        => LET A == ToString(last'.user)
           IN  /\ \A B \in DOMAIN user_settings \ { A } :
                     /\ B \in DOMAIN user_settings'
                     /\ user_settings'[B] = user_settings[B]
               /\ DOMAIN user_settings' = DOMAIN user_settings \cup { A }
               /\ user_settings'[A] =
                     C16_Step(IF A \in DOMAIN user_settings THEN user_settings[A]
                              ELSE C6_Default, last'.action) ]_vars

\* user 2 has changed their record while user 1's, at 64, stayed as it was
C16_Witness ==
    /\ last.kind = "callback"
    /\ last.user = 2
    /\ { "1", "2" } \subseteq DOMAIN before
    /\ user_settings["2"] # before["2"]
    /\ user_settings["1"] = before["1"]
    /\ before["1"].length = 64
    /\ before["2"].length = 64

(***************************************************************************)
(* C12.  The handlers behave as one logical writer of the in-memory table: *)
(* when button_callback coroutines for the same or different users are     *)
(* interleaved at their awaits, the read-modify-write of each is not split *)
(* by another, so no length step or toggle is lost: at every moment the    *)
(* table is what applying the presses handled so far one after another, in *)
(* the order of their turns, makes of the table they were dispatched on.   *)
(***************************************************************************)
\* the coroutines that have had their turn, in the order of their turns
C12_Order ==
    [ k \in 1..Turns |-> CHOOSE i \in Calls : calls[i].turn = k ]

\* one press applied to a table on its own
C12_Pressed(table, user_id, action) ==
    LET A == ToString(user_id)
    IN  [ k \in DOMAIN table \cup { A } |->
            IF k = A
            THEN C16_Step(IF A \in DOMAIN table THEN table[A] ELSE C6_Default, action)
            ELSE table[k] ]

RECURSIVE C12_Replay(_, _)
C12_Replay(table, order) ==
    IF order = << >> THEN table
    ELSE C12_Replay(C12_Pressed(table, calls[Head(order)].user,
                                calls[Head(order)].action),
                    Tail(order))

C12_SingleWriter ==
    /\ \A i \in Calls : calls[i].turn > 0 <=> calls[i].pc \notin { "called", "answering" }
    /\ \A k \in 1..Turns : Cardinality({ i \in Calls : calls[i].turn = k }) = 1
    /\ user_settings = C12_Replay(before, C12_Order)

\* two presses of user 1, whose record was at 64: len_incr had its turn,
\* and while its menu edit was in flight len_decr had its turn
C12_Witness ==
    /\ calls[1].user = 1 /\ calls[1].action = LEN_INCR
    /\ calls[2].user = 1 /\ calls[2].action = LEN_DECR
    /\ calls[1].pc = "editing" /\ calls[1].turn = 1
    /\ calls[2].pc = "editing" /\ calls[2].turn = 2
    /\ user_id_str(1) \in DOMAIN before
    /\ before[user_id_str(1)].length = 64
    /\ user_settings[user_id_str(1)].length = 63

(***************************************************************************)
(* C17.  Within one button_callback the steps come in a fixed order: the   *)
(* callback query is answered first, with the table and the file as they   *)
(* were; then the record is changed (or, for generate, the password is     *)
(* generated and sent as a new message); then the whole table is written   *)
(* to the file; and only then is the menu edited, so the menu edited after *)
(* a mutating press shows the record as the press left it, and for         *)
(* generate the password message is sent before the menu edit.             *)
(***************************************************************************)
C17_Ops(log) == [ k \in 1..Len(log) |-> log[k].op ]

C17_WholeTable(f, table) ==
    /\ f.state = "json"
    /\ f.doc = { << k, table[k] >> : k \in DOMAIN table }

C17_Mutating ==
    { LEN_INCR, LEN_DECR, TOGGLE_UPPER, TOGGLE_LOWER, TOGGLE_DIGITS, TOGGLE_SYMBOLS }

C17_FixedOrder ==
    [][ \A i \in Calls :
          LET c == calls[i]
              d == calls'[i]
              A == ToString(c.user)
          IN  /\ ( c.pc = "called" /\ d.pc # "called" )
                    => /\ d.pc = "answering"
                       /\ C17_Ops(d.events) = << "answer" >>
                       /\ user_settings' = user_settings
                       /\ file' = file
              /\ ( c.pc = "answering" /\ d.pc # "answering" /\ c.action \in C17_Mutating )
                    => /\ d.pc = "editing"
                       /\ C17_Ops(d.events) = << "answer", "save", "edit_menu" >>
                       /\ user_settings' = C12_Pressed(user_settings, c.user, c.action)
                       /\ C17_WholeTable(file', user_settings')
                       /\ d.events[3].config = user_settings'[A]
              /\ ( c.pc = "answering" /\ d.pc # "answering" /\ c.action = GENERATE )
                    => /\ d.pc = "sending"
                       /\ C17_Ops(d.events) = << "answer", "send_message" >>
                       /\ file' = file
              /\ ( c.pc = "answering" /\ d.pc # "answering"
                   /\ c.action \notin C17_Mutating \cup { GENERATE } )
                    => /\ d.pc = "done"
                       /\ C17_Ops(d.events) = << "answer" >>
                       /\ file' = file
              /\ ( c.pc = "sending" /\ d.pc # "sending" )
                    => /\ d.pc = "editing"
                       /\ C17_Ops(d.events) =
                            << "answer", "send_message", "save", "edit_menu" >>
                       /\ user_settings' = user_settings
                       /\ C17_WholeTable(file', user_settings')
                       /\ d.events[4].config = user_settings'[A]
              /\ ( c.pc = "editing" /\ d.pc # "editing" )
                    => /\ d.pc = "done"
                       /\ d.events = c.events
                       /\ user_settings' = user_settings
                       /\ file' = file ]_vars

\* a generate of user 2 has returned: answer, password message, write,
\* menu edit, and the menu showed user 2's record
C17_Witness ==
    \E i \in Calls :
        /\ calls[i].action = GENERATE
        /\ calls[i].user = 2
        /\ calls[i].pc = "done"
        /\ C17_Ops(calls[i].events) = << "answer", "send_message", "save", "edit_menu" >>
        /\ calls[i].events[4].config = user_settings[user_id_str(2)]
        /\ C17_WholeTable(file, user_settings)

(***************************************************************************)
(* C18.  A callback whose action is len_info, or any string other than the *)
(* seven recognised actions, from a user who already has a record, changes *)
(* nothing: the table is unchanged, the file is not written, no password   *)
(* is sent and the menu is not re-rendered; the query is only answered.    *)
(***************************************************************************)
C18_Recognised ==
    { LEN_INCR, LEN_DECR, TOGGLE_UPPER, TOGGLE_LOWER, TOGGLE_DIGITS,
      TOGGLE_SYMBOLS, GENERATE }

C18_NothingHappens ==
    [][ ( /\ last'.kind = "callback"
          /\ last'.action \notin C18_Recognised
          /\ ToString(last'.user) \in DOMAIN user_settings )
        => /\ user_settings' = user_settings
           /\ file' = file
           /\ C17_Ops(events') = << "answer" >>
           /\ gen_result' = Pending ]_vars

\* user 2, whose record is at length 4 with nothing enabled, has pressed
\* the length label
C18_Witness ==
    /\ IsCallback(last, LEN_INFO)
    /\ last.user = 2
    /\ ToString(2) \in DOMAIN before
    /\ user_settings = before
    /\ Pressed.length = 4
    /\ C17_Ops(events) = << "answer" >>
    /\ file.state = "json"

(***************************************************************************)
(* C19 as stated.  A failed write of the settings file is contained:       *)
(* save_user_settings logs the failure and returns normally, the callback  *)
(* still re-renders the menu, the in-memory record keeps the change just   *)
(* made, and the file is then stale, holding what it held before the       *)
(* write; a write that succeeds writes the whole in-memory table.          *)
(***************************************************************************)
C19_Contained(stored) ==
        ( last'.kind = "callback" /\ last'.action \in C18_Recognised )
        => LET ops == C17_Ops(events')
               A   == ToString(last'.user)
           IN  /\ \A k \in 1..Len(ops) : ops[k] # "raise"
               /\ ops[Len(ops)] = "edit_menu"
               /\ events'[Len(ops)].config = user_settings'[A]
               /\ user_settings' = C12_Pressed(user_settings, last'.user, last'.action)
               /\ IF \E k \in 1..Len(ops) : ops[k] = "save"
                  THEN /\ C17_WholeTable(file', user_settings')
                       /\ \A k \in 1..Len(ops) : ops[k] # "log_error"
                  ELSE /\ \E k \in 1..Len(ops) :
                             /\ ops[k] = "log_error"
                             /\ events'[k].text = << "IOError" >>
                       /\ file' \in stored

C19_FileStale == [][C19_Contained({ file })]_vars

(***************************************************************************)
(* C19, amended.  The same, except that after a failed write the file is   *)
(* either stale (it could not be opened for writing) or cut short, no      *)
(* longer a JSON document and without the table it held (the write failed  *)
(* after open() had truncated it).                                         *)
(***************************************************************************)
C19_FileStaleOrCutShort == [][C19_Contained({ file, MalformedFile })]_vars

\* a toggle of user 1 whose write failed after open(): the change is in
\* memory and in the menu, the file that held user 1's record is cut short
C19_Witness ==
    /\ IsCallback(last, TOGGLE_DIGITS)
    /\ last.user = 1
    /\ C7_WriteFailed
    /\ ToString(1) \in DOMAIN before
    /\ Pressed.use_digits # before[ToString(1)].use_digits
    /\ events[Len(events)].op = "edit_menu"
    /\ events[Len(events)].config = Pressed
    /\ file = MalformedFile
    /\ before[ToString(1)].length = 64

(***************************************************************************)
(* C20.  Persistence round trip across a restart: the table that           *)
(* load_user_settings returns after a successful save_user_settings is the *)
(* table that was saved; and as records are keyed by the string form of    *)
(* the user-id before and after the restart, the press of a user whose     *)
(* record is in the file continues from the stored length and flags and    *)
(* adds no second, default record.                                         *)
(***************************************************************************)
C20_Saved == \E k \in 1..Len(events) : events[k].op = "save"

C20_Stored(user_id) ==
    { m \in file.doc : m[1] = ToString(user_id) }

=============================================================================
